---- MODULE Spec2Model ----
(***************************************************************************)
(* CineSync: three cooperating services.                                   *)
(*   user_service          register / token / favorites (relational store) *)
(*   movie_service         search with a Redis cache in front of TMDB      *)
(*   notification_service  RabbitMQ consumer sending welcome e-mails       *)
(* Each service is a component with its own variables and its own          *)
(* specification; the components share no state.                           *)
(***************************************************************************)
EXTENDS Integers, Sequences, FiniteSets, TLC

(***************************************************************************)
(* Bounds of the model.                                                    *)
(***************************************************************************)
\* number of HTTP requests the user service handles in one run
MaxReq == 3
\* number of search requests the movie service handles in one run
MaxSearch == 2
\* number of messages published to the queue in one run
MaxMsgs == 2
\* number of failed steps of the consumer's connection loop in one run
MaxFailures == 1
\* the register requests, the calls of publish_user_created and of close
MaxReg == 2
MaxPublish == 2
MaxCloses == 2

Reqs == 1..MaxReq
\* authenticated users (users.id) and TMDB movie ids
Users == {1, 2}
Movies == {10, 20}

\* a key that a JSON object does not hold, and Python's None
Missing == "<missing>"
None == "None"

VARIABLES
    \* ---- user_service ----
    favorites,      \* rows of table "favorites"
    nextFavId,      \* the primary-key sequence of table "favorites"
    dbClock,        \* the database server's clock (now())
    req,            \* the requests: slot -> record
    \* ---- movie_service ----
    cache,          \* Redis: key -> <<>> or <<[value, expires]>>
    now,            \* the time, in seconds
    sreq,           \* the search requests: slot -> record
    tmdbCalls,      \* the number of calls TMDB has received
    written,        \* key -> the last redis.set under it: when, and of which list
    answered,       \* key -> the answers of TMDB to the searches for it: how many
                    \* were empty, and whether one was not
    lastLog,        \* the last line the movie service has logged
    lookup,         \* the last answer of GET /movies/{movie_id}
    tmdbQuery,      \* the "query" parameter of the last request sent to TMDB
    movieLife,      \* where lifespan() of the movie service is
    movieOpen,      \* resource of the movie service -> it is open
    \* ---- notification_service and its broker ----
    queue,          \* the messages ready in "user_created_queue", oldest first
    nextMsgId,      \* the number of messages published so far, plus one
    tasks,          \* the process_message tasks, in the order of delivery: those
                    \* that run, and those that ended last
    acked,          \* the ids of the messages the broker has had acknowledged
    mainPc,         \* where main() is ("dead": the process has ended)
    registered,     \* the broker holds a consumer of the queue for this process
    failures,       \* the number of failures so far: failed steps of main(),
                    \* ends of the process, losses of the connection
    slept,          \* the seconds main() has slept after failed steps
    \* ---- user_service: start-up, registration, the event publisher ----
    lifePc,         \* where lifespan() is
    httpOpen,       \* resources["http_client"] is open
    pubConnection,  \* publisher.connection: "None", "open" or "closed"
    pubChannel,     \* publisher.channel: "None", "open" or "closed"
    connPc,         \* where publisher.connect() is
    retries,        \* the local "retries" of connect()
    attempts,       \* the connection attempts connect() has made
    waited,         \* the seconds connect() has slept
    handed,         \* the messages the broker has received from the publisher
    publishes,      \* the number of calls of publish_user_created so far
    closes,         \* the number of calls of close() so far
    lastCall,       \* the last call of publish_user_created or close: the channel
                    \* or connection it found, whether it raised, the line it logged
    users,          \* rows of table "users"
    nextUserId,     \* the primary-key sequence of table "users"
    reg             \* the register requests: slot -> record

favVars == <<favorites, nextFavId, dbClock, req>>
movieVars == <<cache, now, sreq, tmdbCalls, written, answered, lastLog, lookup,
              tmdbQuery, movieLife, movieOpen>>

notifVars == <<queue, nextMsgId, tasks, acked, mainPc, registered, failures, slept>>

idVars == <<lifePc, httpOpen, pubConnection, pubChannel, connPc, retries, attempts,
            waited, handed, publishes, closes, lastCall, users, nextUserId, reg>>

vars == <<favVars, movieVars, notifVars, idVars>>

(***************************************************************************)
(* movie_service: GET /movies/{movie_id}                                   *)
(***************************************************************************)
\* What MovieService.get_movie_by_id can do for one call: return the entry,
\* return None (upstream reports not-found) or raise HTTPException(502).
GetMovieByIdOutcomes == {"entry", "none", "unavailable"}

\* The entries upstream can hold for a movie (a JSON object; a key may be absent).
MovieEntries ==
    { [title |-> "Dune", poster_path |-> "/dune.jpg"],
      [title |-> Missing, poster_path |-> Missing] }

\* MovieService.get_movie_by_id(movie_id): the entry, None, or an HTTP error.
\* A value that may be None is a sequence of at most one element.
get_movie_by_id(outcome, entry) ==
    CASE outcome = "entry" -> [raised |-> 0, value |-> <<entry>>]
      [] outcome = "none" -> [raised |-> 0, value |-> <<>>]
      [] OTHER -> [raised |-> 502, value |-> <<>>]

\* get_movie_details where None is returned as it is
get_movie_details_unchecked(outcome, entry) ==
    LET movie == get_movie_by_id(outcome, entry) IN
    IF movie.raised # 0 THEN [status |-> movie.raised, json |-> <<>>]
    ELSE [status |-> 200, json |-> movie.value]

\* get_movie_details: 404 when the service returns None, else the movie.
get_movie_details(outcome, entry) ==
    LET movie == get_movie_by_id(outcome, entry) IN
    IF movie.raised # 0 THEN [status |-> movie.raised, json |-> <<>>]
    ELSE IF movie.value = <<>> THEN [status |-> 404, json |-> <<>>]
    ELSE [status |-> 200, json |-> movie.value]

\* What http_client.get(".../movies/{id}") gives the user service: a response of
\* the movie service, or a transport failure (httpx.RequestError), written as
\* status 0.
TransportError == [status |-> 0, json |-> <<>>]
MovieServiceResponses ==
    { get_movie_details(o, e) : o \in GetMovieByIdOutcomes, e \in MovieEntries }
        \cup { TransportError }

(***************************************************************************)
(* user_service: the favorites of a user                                   *)
(***************************************************************************)
\* dict.get(key, default)
DictGet(d, key, default) == IF d[key] = Missing THEN default ELSE d[key]

\* The table without its unique constraint: every insert is accepted
uq_user_movie_dropped(rows, row) == TRUE

\* UniqueConstraint("user_id", "movie_id", name="uq_user_movie")
uq_user_movie(rows, row) ==
    ~ \E f \in rows : f.user_id = row.user_id /\ f.movie_id = row.movie_id

\* add_favorite always hands resources["http_client"] to the service
http_client == TRUE

\* A request slot: the handler's position (pc), its arguments and locals, the
\* HTTP status it answered and the rows it returned; "after" is the set of
\* requests that had been answered when this one arrived.
IdleReq ==
    [kind |-> "idle", pc |-> "idle", user |-> 0, movie |-> 0, txStart |-> 0,
     movie_status |-> -1, movie_data |-> <<>>, selected |-> <<>>,
     status |-> 0, result |-> <<>>, after |-> {}]

Done(r) == req[r].pc = "done"
DoneReqs == { r \in Reqs : Done(r) }

\* A request arrives: get_current_user loads the user, which begins the
\* session's transaction; now() is that transaction's start time.
Arrive(r, kind, u, m) ==
    [IdleReq EXCEPT !.kind = kind, !.user = u, !.movie = m,
                    !.txStart = dbClock, !.after = DoneReqs]

\* Slots are taken in order.
Free(r) ==
    /\ req[r].pc = "idle"
    /\ \A q \in Reqs : q < r => req[q].pc # "idle"

\* The handler returns or raises: the locals are gone.  "after" is kept for the
\* calls that changed the store or looked for a row to delete.
Finish(rec, status, result) ==
    [rec EXCEPT !.pc = "done", !.status = status, !.result = result,
                !.txStart = 0, !.movie_data = <<>>, !.selected = <<>>,
                !.after = IF rec.kind = "list" \/ (rec.kind = "add" /\ status # 200)
                          THEN {} ELSE rec.after]

\* raise_for_status(): an HTTPStatusError unless the status is 2xx
raise_for_status(status) == ~ (200 <= status /\ status <= 299)

\* "except httpx.HTTPStatusError" would let a transport failure through
CaughtAsHTTPStatusError(resp) == resp.status # 0 /\ raise_for_status(resp.status)

\* What "except httpx.HTTPError" catches: transport failures and the
\* HTTPStatusError of raise_for_status.
CaughtAsHTTPError(resp) == resp.status = 0 \/ raise_for_status(resp.status)

\* The catalog check without its test for 404: raise_for_status() alone
check_movie_raise_for_status_only(resp) ==
    IF ~ http_client THEN 500
    ELSE IF resp.status = 0 \/ raise_for_status(resp.status) THEN 502
    ELSE 0

\* The catalog check of add_to_favorites: 0 when the call goes on to the
\* insert, else the status of the HTTPException raised (500: an exception that
\* nothing catches).
check_movie(resp) ==
    IF ~ http_client THEN 500
    ELSE IF resp.status = 0 THEN (IF CaughtAsHTTPError(resp) THEN 502 ELSE 500)
    ELSE IF resp.status = 404 THEN 404
    ELSE IF raise_for_status(resp.status)
         THEN (IF CaughtAsHTTPError(resp) THEN 502 ELSE 500)
    ELSE 0

\* POST /users/me/favorites: the request arrives and add_to_favorites asks the
\* movie service for the movie.  Nothing shared is read or written between the
\* arrival and the answer of the movie service, so they are one step.  A call
\* that fails here never reaches the store: its slot keeps the answer of the
\* movie service and the status raised.
AddRequest(r, u, m, resp) ==
    /\ Free(r)
    /\ LET rec == [Arrive(r, "add", u, m) EXCEPT !.movie_status = resp.status]
           raised == check_movie(resp) IN
       req' = [req EXCEPT ![r] =
                 IF raised # 0
                 THEN Finish([rec EXCEPT !.user = 0, !.movie = 0], raised, <<>>)
                 ELSE [rec EXCEPT !.pc = "add_commit", !.movie_data = resp.json]]
    /\ UNCHANGED <<favorites, nextFavId, dbClock>>
    /\ UNCHANGED <<movieVars, notifVars, idVars>>

\* A row that takes nothing from the fetched entry
NewFavorite_blank(r) ==
    [id |-> nextFavId,
     user_id |-> req[r].user,
     movie_id |-> req[r].movie,
     movie_title |-> "Unknown",
     movie_poster_path |-> None,
     added_at |-> req[r].txStart]

\* The row add_to_favorites builds from the fetched entry; added_at is the
\* server default now().
NewFavorite(r) ==
    [id |-> nextFavId,
     user_id |-> req[r].user,
     movie_id |-> req[r].movie,
     movie_title |-> DictGet(req[r].movie_data[1], "title", "Unknown"),
     movie_poster_path |-> DictGet(req[r].movie_data[1], "poster_path", None),
     added_at |-> req[r].txStart]

\* add_to_favorites: db.add, commit, refresh; IntegrityError -> rollback, 400.
\* The clock was read when the request arrived and has advanced by now.
AddCommit(r) ==
    /\ req[r].pc = "add_commit"
    /\ LET favorite == NewFavorite(r) IN
       IF uq_user_movie(favorites, favorite)
       THEN /\ favorites' = favorites \cup {favorite}
            /\ nextFavId' = nextFavId + 1
            /\ req' = [req EXCEPT ![r] = Finish(req[r], 200, <<favorite>>)]
       ELSE /\ req' = [req EXCEPT ![r] = Finish(req[r], 400, <<>>)]
            /\ UNCHANGED <<favorites, nextFavId>>
    /\ dbClock' = dbClock + 1
    /\ UNCHANGED <<movieVars, notifVars, idVars>>

\* order_by(Favorite.added_at.asc()): oldest first
added_at_asc(a, b) == a.added_at =< b.added_at

\* order_by(Favorite.added_at.desc()): a precedes b only if it is not older
added_at_desc(a, b) == a.added_at >= b.added_at

\* The answers a SELECT ... ORDER BY can give: every arrangement of the rows
\* that respects the order (rows with equal keys come in any order).
OrderedBy(rows) ==
    { s \in [1..Cardinality(rows) -> rows] :
        /\ \A i, j \in 1..Cardinality(rows) : i # j => s[i] # s[j]
        /\ \A i, j \in 1..Cardinality(rows) : i < j => added_at_desc(s[i], s[j]) }

\* select(Favorite).where(Favorite.user_id == user_id)
FavoritesOf(u) == { f \in favorites : f.user_id = u }

\* get_user_favorites
get_user_favorites(u) == OrderedBy(FavoritesOf(u))

\* GET /users/me/favorites
ListRequest(r, u, answer) ==
    /\ Free(r)
    /\ answer \in get_user_favorites(u)
    /\ req' = [req EXCEPT ![r] = Finish(Arrive(r, "list", u, 0), 200, answer)]
    /\ UNCHANGED <<favorites, nextFavId, dbClock>>
    /\ UNCHANGED <<movieVars, notifVars, idVars>>

\* a SELECT by movie_id alone
Matching_any_user(u, m) == { f \in favorites : f.movie_id = m }

\* select(Favorite).where(user_id == ..., movie_id == ...)
Matching(u, m) == { f \in favorites : f.user_id = u /\ f.movie_id = m }

\* Result.scalar_one(): raises unless exactly one row was found
scalar_one(found) ==
    IF Cardinality(found) # 1 THEN [raised |-> TRUE, value |-> <<>>]
    ELSE [raised |-> FALSE, value |-> <<CHOOSE f \in found : TRUE>>]

\* Result.scalar_one_or_none(): the row, None when there is none; raises
\* MultipleResultsFound when there are several
scalar_one_or_none(found) ==
    IF Cardinality(found) > 1 THEN [raised |-> TRUE, value |-> <<>>]
    ELSE IF found = {} THEN [raised |-> FALSE, value |-> <<>>]
    ELSE [raised |-> FALSE, value |-> <<CHOOSE f \in found : TRUE>>]

\* remove_favorite: 204 when the service returns True, 404 when False
remove_favorite(success) == IF success THEN 204 ELSE 404

\* DELETE /users/me/favorites/{movie_id}: the request arrives and
\* remove_from_favorites runs its SELECT.  No row: it returns False.
RemoveRequest(r, u, m) ==
    /\ Free(r)
    /\ LET favorite == scalar_one_or_none(Matching(u, m))
           rec == Arrive(r, "remove", u, m) IN
       req' = [req EXCEPT ![r] =
                 IF favorite.raised THEN Finish(rec, 500, <<>>)
                 ELSE IF favorite.value = <<>>
                      THEN Finish(rec, remove_favorite(FALSE), <<>>)
                 ELSE [rec EXCEPT !.pc = "rm_delete", !.selected = favorite.value]]
    /\ UNCHANGED <<favorites, nextFavId, dbClock>>
    /\ UNCHANGED <<movieVars, notifVars, idVars>>

\* remove_from_favorites: db.delete(favorite), commit, return True (204).  The
\* DELETE names the row by primary key; a row already gone matches nothing,
\* which the ORM reports as a warning only.
RemoveDelete(r) ==
    /\ req[r].pc = "rm_delete"
    /\ favorites' = { f \in favorites : f.id # req[r].selected[1].id }
    /\ req' = [req EXCEPT ![r] = Finish(req[r], remove_favorite(TRUE), <<>>)]
    /\ UNCHANGED <<nextFavId, dbClock>>
    /\ UNCHANGED <<movieVars, notifVars, idVars>>

(***************************************************************************)
(* movie_service: lifespan                                                 *)
(***************************************************************************)
MovieResources == {"redis", "http_client"}

catalogVars == <<cache, now, sreq, tmdbCalls, written, answered, lastLog, lookup,
                 tmdbQuery>>

\* lifespan(): the Redis client and the HTTP client are created; yield
MovieStartup ==
    /\ movieLife = "init"
    /\ movieLife' = "serving"
    /\ movieOpen' = [res \in MovieResources |-> TRUE]
    /\ UNCHANGED catalogVars
    /\ UNCHANGED <<favVars, notifVars, idVars>>

\* a teardown that closes the cache connection first
teardown_redis_first == <<"redis", "http_client">>

\* lifespan() after its yield: resources["http_client"].aclose(), then
\* resources["redis"].aclose()
teardown == <<"http_client", "redis">>

\* The server has let the requests end; lifespan() closes its first resource.
MovieShutdownFirst ==
    /\ movieLife = "serving"
    /\ \A r \in DOMAIN sreq : sreq[r].pc \in {"idle", "done"}
    /\ movieLife' = "closing"
    /\ movieOpen' = [movieOpen EXCEPT ![teardown[1]] = FALSE]
    /\ UNCHANGED catalogVars
    /\ UNCHANGED <<favVars, notifVars, idVars>>

\* lifespan() closes its second resource and ends.
MovieShutdownSecond ==
    /\ movieLife = "closing"
    /\ movieLife' = "stopped"
    /\ movieOpen' = [movieOpen EXCEPT ![teardown[2]] = FALSE]
    /\ UNCHANGED catalogVars
    /\ UNCHANGED <<favVars, notifVars, idVars>>

(***************************************************************************)
(* movie_service: GET /search                                              *)
(***************************************************************************)
Searches == 1..MaxSearch

\* The search terms clients send: strings, as sequences of characters.
Queries == { <<"A">>, <<" ", "a">>, <<"b">> }

\* str.lower()
LowerChar(c) == IF c = "A" THEN "a" ELSE IF c = "B" THEN "b" ELSE c
Lower(str) == [i \in 1..Len(str) |-> LowerChar(str[i])]

\* str.strip(): without the leading and trailing whitespace
RECURSIVE LStrip(_)
LStrip(str) ==
    IF str # <<>> /\ Head(str) = " " THEN LStrip(Tail(str)) ELSE str
RECURSIVE RStrip(_)
RStrip(str) ==
    IF str # <<>> /\ str[Len(str)] = " "
    THEN RStrip(SubSeq(str, 1, Len(str) - 1)) ELSE str
Strip(str) == LStrip(RStrip(str))

\* the cache key of the raw query itself
raw_cache_key(query) == <<"movie_search:">> \o query

\* a key that is lower-cased and not stripped
cache_key_unstripped(query) == <<"movie_search:">> \o Lower(query)

\* cache_key = f"movie_search:{query.lower().strip()}"
cache_key(query) == <<"movie_search:">> \o Strip(Lower(query))

CacheKeys == { cache_key(q) : q \in Queries } \cup { raw_cache_key(q) : q \in Queries }

\* The movies of a result list, each standing for its JSON object.
MovieIds == {1, 2}
ResultLists == { <<>>, <<1>>, <<2, 1>> }

\* json.dumps of a list: "[", the elements separated by ",", "]"
RECURSIVE DumpItems(_)
DumpItems(list) ==
    IF list = <<>> THEN <<>>
    ELSE IF Len(list) = 1 THEN <<ToString(Head(list))>>
    ELSE <<ToString(Head(list)), ",">> \o DumpItems(Tail(list))
json_dumps(list) == <<"[">> \o DumpItems(list) \o <<"]">>

\* json.loads of such a text
RECURSIVE LoadItems(_)
LoadItems(text) ==
    IF text = <<>> THEN <<>>
    ELSE IF Head(text) \in {"[", ",", "]"} THEN LoadItems(Tail(text))
    ELSE <<CHOOSE n \in MovieIds : ToString(n) = Head(text)>> \o LoadItems(Tail(text))
json_loads(text) == LoadItems(text)

\* Python's truth value of a str or a list (None is written <<>>)
Truthy(x) == Len(x) > 0

\* ex=300: the TTL of a cache entry, in seconds
CACHE_TTL == 300

\* redis.set(..., px=300) would end the entry within the second
expiry_px(t) == t

\* redis.set(..., ex=300): the entry lives until 300 seconds after the write
expiry_ex(t) == t + CACHE_TTL

\* a store that never expires its entries
redis_get_persistent(key) ==
    IF cache[key] # <<>> THEN cache[key][1].value ELSE <<>>

\* redis.get(key): the value, or None once the entry has expired
redis_get(key) ==
    IF cache[key] # <<>> /\ now =< cache[key][1].expires
    THEN cache[key][1].value ELSE <<>>

\* What TMDB answers: a status (0: transport failure) and, with 200, a JSON
\* object that may or may not hold "results".
TmdbResponses ==
    { [status |-> 200, has_results |-> TRUE, results |-> l] : l \in ResultLists }
      \cup { [status |-> 200, has_results |-> FALSE, results |-> <<>>],
             [status |-> 500, has_results |-> FALSE, results |-> <<>>],
             [status |-> 0, has_results |-> FALSE, results |-> <<>>] }

IdleSearch ==
    [pc |-> "idle", query |-> <<>>, data |-> <<>>, status |-> 0, result |-> <<>>,
     hit |-> FALSE, calls |-> 0]

SearchDone(rec, status, result) ==
    [rec EXCEPT !.pc = "done", !.status = status, !.result = result, !.data = <<>>,
                !.query = <<>>]

FreeSearch(r) ==
    /\ sreq[r].pc = "idle"
    /\ \A q \in Searches : q < r => sreq[q].pc # "idle"

\* search_movies: the key, redis.get, and the return of a hit
SearchGet(r, query) ==
    /\ movieLife = "serving"
    /\ FreeSearch(r)
    /\ LET cached == redis_get(cache_key(query))
           rec == [IdleSearch EXCEPT !.query = query] IN
       /\ sreq' = [sreq EXCEPT ![r] =
                  IF Truthy(cached)
                  THEN SearchDone([rec EXCEPT !.hit = TRUE], 200, json_loads(cached))
                  ELSE [rec EXCEPT !.pc = "call_tmdb"]]
       /\ lastLog' = [slot |-> r, query |-> query,
                      line |-> IF Truthy(cached) THEN "Cache HIT" ELSE "Cache MISS"]
    /\ UNCHANGED <<cache, now, tmdbCalls, written, answered, lookup, tmdbQuery>>
    /\ UNCHANGED <<movieLife, movieOpen>>
    /\ UNCHANGED <<favVars, notifVars, idVars>>

\* caching whatever TMDB answered
should_cache_always(data) == TRUE

\* "if data:" of search_movies
should_cache(data) == Truthy(data)

\* params={"query": query, ...}: TMDB is asked for the term as it came
query_param(query) == query

\* search_movies without its raise_for_status(): only a transport failure fails
tmdb_failed_in_transport(resp) == resp.status = 0

\* What "except httpx.HTTPError" of search_movies catches: a transport failure
\* of client.get, or the HTTPStatusError of raise_for_status
tmdb_failed(resp) == resp.status = 0 \/ raise_for_status(resp.status)

\* search_movies: client.get("/search/movie"), raise_for_status, the results;
\* an empty list is returned without being cached
SearchUpstream(r, resp) ==
    /\ sreq[r].pc = "call_tmdb"
    /\ tmdbCalls' = tmdbCalls + 1
    /\ tmdbQuery' = query_param(sreq[r].query)
    /\ LET rec == [sreq[r] EXCEPT !.calls = @ + 1]
           data == IF resp.has_results THEN resp.results ELSE <<>>
           key == cache_key(sreq[r].query) IN
       IF tmdb_failed(resp)
       THEN /\ sreq' = [sreq EXCEPT ![r] = SearchDone(rec, 502, <<>>)]
            /\ lastLog' = [slot |-> r, query |-> <<>>, line |-> "TMDB Error"]
            /\ UNCHANGED answered
       ELSE /\ sreq' = [sreq EXCEPT ![r] =
                         IF should_cache(data)
                         THEN [rec EXCEPT !.pc = "cache_set", !.data = data]
                         ELSE SearchDone(rec, 200, data)]
            /\ answered' = [answered EXCEPT ![key] =
                               IF data = <<>> THEN [@ EXCEPT !.empty = @ + 1]
                               ELSE [@ EXCEPT !.nonEmpty = TRUE]]
            /\ UNCHANGED lastLog
    /\ UNCHANGED <<cache, now, written, lookup>>
    /\ UNCHANGED <<movieLife, movieOpen>>
    /\ UNCHANGED <<favVars, notifVars, idVars>>

\* redis.set(..., nx=True) would keep an entry that is there and alive
redis_set_nx(entry, value, t) ==
    IF entry # <<>> /\ t =< entry[1].expires THEN entry
    ELSE <<[value |-> value, expires |-> expiry_ex(t)]>>

\* redis.set(key, value, ex=300): the entry of the key is replaced
redis_set(entry, value, t) == <<[value |-> value, expires |-> expiry_ex(t)]>>

\* search_movies: redis.set(cache_key, json.dumps(data), ex=300); return data
SearchSet(r) ==
    /\ sreq[r].pc = "cache_set"
    /\ LET key == cache_key(sreq[r].query)
           data == sreq[r].data IN
       /\ cache' = [cache EXCEPT ![key] = redis_set(@, json_dumps(data), now)]
       /\ written' = [written EXCEPT ![key] = [at |-> now, data |-> data]]
       /\ sreq' = [sreq EXCEPT ![r] = SearchDone(sreq[r], 200, data)]
    /\ UNCHANGED <<now, tmdbCalls, answered, lastLog, lookup, tmdbQuery>>
    /\ UNCHANGED <<movieLife, movieOpen>>
    /\ UNCHANGED <<favVars, notifVars, idVars>>

\* Time passes.  The model looks at the clock at these instants: around the
\* start and around the end of the TTL of an entry written at 0 or at 1.
Instants == {0, 1, CACHE_TTL, CACHE_TTL + 1}
Tick(t) ==
    /\ t > now
    /\ now' = t
    /\ UNCHANGED <<cache, sreq, tmdbCalls, written, answered, lastLog, lookup, tmdbQuery>>
    /\ UNCHANGED <<movieLife, movieOpen>>
    /\ UNCHANGED <<favVars, notifVars, idVars>>

\* GET /movies/{movie_id}: the answer of get_movie_details to what upstream
\* does for this id; neither the handler nor the service call touches redis.
GetMovieDetails(movie_id, outcome, entry) ==
    /\ movieLife = "serving"
    /\ lookup' = get_movie_details(outcome, entry)
    /\ UNCHANGED <<cache, now, sreq, tmdbCalls, written, answered, lastLog, tmdbQuery>>
    /\ UNCHANGED <<movieLife, movieOpen>>
    /\ UNCHANGED <<favVars, notifVars, idVars>>

(***************************************************************************)
(* notification_service: the consumer of "user_created_queue"              *)
(***************************************************************************)
\* Message bodies.  A body is a text that is a JSON object, a JSON value of
\* another kind, or no JSON at all; the keys of an object hold at most one
\* value each (<<>>: the key is absent).
JsonObject(event, user_id, email) ==
    [syntax |-> "object", event |-> event, user_id |-> user_id, email |-> email]
Bodies ==
    { JsonObject(<<"UserCreated">>, <<7>>, <<"a@b.com">>),
      JsonObject(<<"UserRegistered">>, <<7>>, <<"a@b.com">>),
      JsonObject(<<>>, <<7>>, <<"a@b.com">>),
      [syntax |-> "array", event |-> <<>>, user_id |-> <<>>, email |-> <<>>],
      [syntax |-> "invalid", event |-> <<>>, user_id |-> <<>>, email |-> <<>>] }

\* channel.declare_queue("user_created_queue", durable=False): the name of the
\* queue main() declares and consumes
QUEUE_NAME == "user_created_queue"

\* A producer publishes a message to the default exchange with the queue's
\* name as routing key.
Publish(body) ==
    /\ nextMsgId =< MaxMsgs
    /\ queue' = Append(queue, [id |-> nextMsgId, body |-> body, redelivered |-> FALSE])
    /\ nextMsgId' = nextMsgId + 1
    /\ UNCHANGED <<tasks, acked, mainPc, registered, failures, slept>>
    /\ UNCHANGED <<favVars, movieVars, idVars>>

\* A step of main() that awaits the broker succeeds or raises; an exception
\* is caught by "except Exception", logged, and followed by the sleep.
\* the loop of main() without its "except Exception": the failure ends main()
after_failure_exit == "dead"

\* "except Exception as e": the failure is logged, and main() sleeps
after_failure == "sleep"

\* await asyncio.sleep(5)
RECONNECT_DELAY == 5

MainStep(from, to, ok) ==
    /\ mainPc = from
    /\ IF ok
       THEN mainPc' = to /\ UNCHANGED failures
       ELSE /\ failures < MaxFailures
            /\ failures' = failures + 1
            /\ mainPc' = after_failure
    /\ registered' = (from = "consume" /\ ok)
    /\ UNCHANGED <<queue, nextMsgId, tasks, acked, slept>>
    /\ UNCHANGED <<favVars, movieVars, idVars>>

\* connection = await aio_pika.connect_robust(RABBITMQ_URL)
MainConnect(ok) == MainStep("connect", "channel", ok)
\* channel = await connection.channel()
MainChannel(ok) == MainStep("channel", "declare", ok)
\* queue = await channel.declare_queue("user_created_queue", durable=False)
MainDeclare(ok) == MainStep("declare", "consume", ok)
\* await queue.consume(process_message); then await asyncio.Future()
MainConsume(ok) == MainStep("consume", "consuming", ok)
\* await asyncio.sleep(5), and the loop starts over
MainSleep ==
    /\ mainPc = "sleep"
    /\ mainPc' = "connect"
    /\ slept' = slept + RECONNECT_DELAY
    /\ UNCHANGED <<queue, nextMsgId, tasks, acked, registered, failures>>
    /\ UNCHANGED <<favVars, movieVars, idVars>>

\* queue.consume(process_message, no_ack=True): acknowledged on delivery
no_ack_set == TRUE

\* queue.consume(process_message): no_ack keeps its default
no_ack == FALSE

\* The broker delivers the oldest ready message to the registered consumer,
\* which starts a process_message task for it.
Deliver ==
    /\ mainPc = "consuming" /\ registered
    /\ queue # <<>>
    /\ tasks' = Append(tasks, [msg |-> Head(queue).id, body |-> Head(queue).body,
                               redelivered |-> Head(queue).redelivered,
                               pc |-> "received", outcome |-> "none", live |-> TRUE,
                               emails |-> <<>>, warnings |-> <<>>, errors |-> 0,
                               disposition |-> IF no_ack THEN "ack" ELSE "none"])
    /\ queue' = Tail(queue)
    /\ acked' = IF no_ack THEN acked \cup {Head(queue).id} ELSE acked
    /\ UNCHANGED <<nextMsgId, mainPc, registered, failures, slept>>
    /\ UNCHANGED <<favVars, movieVars, idVars>>

\* an event name the publisher does not use
EVENT_NAME_snake_case == "user_created"

\* the event name process_message recognizes
EVENT_NAME == "UserCreated"

\* the dispatch without a test of the event name
is_user_created_always(event_name) == TRUE

\* if event_name == "UserCreated"
is_user_created(event_name) == event_name = <<EVENT_NAME>>

\* process_message without its "except Exception": the failure leaves the block
process_message_uncaught(body) ==
    IF body.syntax # "object"
    THEN [outcome |-> "raised", emails |-> <<>>, warnings |-> <<>>, errors |-> 0]
    ELSE IF body.event = <<"UserCreated">>
    THEN [outcome |-> "success", warnings |-> <<>>, errors |-> 0,
          emails |-> <<[user_id |-> body.user_id, email |-> body.email]>>]
    ELSE [outcome |-> "success", emails |-> <<>>, errors |-> 0,
          warnings |-> <<body.event>>]

\* The body of process_message inside "async with message.process()":
\* json.loads raises on a text that is no JSON, body.get on a value that is no
\* object; "except Exception" logs the error.  Nothing is raised to the caller.
process_message(body) ==
    IF body.syntax # "object"
    THEN [outcome |-> "caught", emails |-> <<>>, warnings |-> <<>>, errors |-> 1]
    ELSE IF is_user_created(body.event)
    THEN [outcome |-> "success", warnings |-> <<>>, errors |-> 0,
          emails |-> <<[user_id |-> body.user_id, email |-> body.email]>>]
    ELSE [outcome |-> "success", emails |-> <<>>, errors |-> 0,
          warnings |-> <<body.event>>]

\* The handler of a delivered message runs; it has no await of its own.
Handle(d) ==
    /\ d \in 1..Len(tasks)
    /\ tasks[d].pc = "received"
    /\ LET done == process_message(tasks[d].body) IN
       tasks' = [tasks EXCEPT ![d] =
                   [@ EXCEPT !.pc = "handled", !.outcome = done.outcome,
                             !.emails = done.emails, !.warnings = done.warnings,
                             !.errors = done.errors]]
    /\ UNCHANGED <<queue, nextMsgId, acked, mainPc, registered, failures, slept>>
    /\ UNCHANGED <<favVars, movieVars, idVars>>

\* The tasks that run, and task d: the tasks that ended earlier are forgotten.
Running(ts, d) ==
    LET keep == { i \in 1..Len(ts) : i = d \/ ts[i].pc \in {"received", "handled"} }
        F[i \in 0..Len(ts)] ==
            IF i = 0 THEN <<>>
            ELSE IF i \in keep THEN Append(F[i - 1], ts[i]) ELSE F[i - 1]
    IN F[Len(ts)]

\* a handler that acknowledges first and works afterwards
exit_on_receipt(task) == task.pc \in {"received", "handled"}

\* message.process() leaves its block when the block has run
exit_after_block(task) == task.pc = "handled"

\* The exit of "async with message.process()": ack when the block ended
\* normally, reject without requeue when it raised.  On a delivery whose
\* channel is gone the ack cannot reach the broker and raises.
on_exit(raised) == IF raised THEN "reject" ELSE "ack"

Exit(d) ==
    /\ d \in 1..Len(tasks)
    /\ exit_after_block(tasks[d])
    /\ LET sent == on_exit(tasks[d].outcome = "raised")
           answer == IF tasks[d].live THEN sent
                     ELSE IF sent = "ack" THEN "ack_failed" ELSE "reject_failed" IN
       /\ tasks' = Running([tasks EXCEPT ![d] =
                               [@ EXCEPT !.pc = "exited", !.disposition = answer]], d)
       /\ acked' = IF answer = "ack" THEN acked \cup {tasks[d].msg} ELSE acked
    /\ UNCHANGED <<queue, nextMsgId, mainPc, registered, failures, slept>>
    /\ UNCHANGED <<favVars, movieVars, idVars>>

\* The messages the broker holds unacknowledged for the consumer: delivered on
\* the present channel and not yet answered.
Unacked(task) ==
    task.live /\ task.pc \in {"received", "handled"} /\ task.disposition = "none"

\* What the broker does when the channel of the consumer closes: every
\* unacknowledged message goes back to the head of the queue, in order.
RECURSIVE Requeued(_)
Requeued(ts) ==
    IF ts = <<>> THEN <<>>
    ELSE (IF Unacked(Head(ts))
          THEN <<[id |-> Head(ts).msg, body |-> Head(ts).body, redelivered |-> TRUE]>>
          ELSE <<>>) \o Requeued(Tail(ts))

\* The process crashes or is interrupted (asyncio.run ends): its tasks are
\* gone with it, its connection closes.
Crash ==
    /\ mainPc # "dead"
    /\ failures < MaxFailures
    /\ failures' = failures + 1
    /\ mainPc' = "dead"
    /\ registered' = FALSE
    /\ queue' = Requeued(tasks) \o queue
    /\ tasks' = <<>>
    /\ UNCHANGED <<nextMsgId, acked, slept>>
    /\ UNCHANGED <<favVars, movieVars, idVars>>

\* The process is started again: main() from its first line.
Restart ==
    /\ mainPc = "dead"
    /\ mainPc' = "connect"
    /\ UNCHANGED <<queue, nextMsgId, tasks, acked, registered, failures, slept>>
    /\ UNCHANGED <<favVars, movieVars, idVars>>

\* The connection to the broker is lost while main() awaits asyncio.Future():
\* nothing is raised in main(), which keeps waiting.  The tasks go on, on a
\* channel that is gone.
Drop ==
    /\ mainPc = "consuming" /\ registered
    /\ failures < MaxFailures
    /\ failures' = failures + 1
    /\ registered' = FALSE
    /\ queue' = Requeued(tasks) \o queue
    /\ tasks' = [d \in 1..Len(tasks) |->
                   IF Unacked(tasks[d]) THEN [tasks[d] EXCEPT !.live = FALSE]
                   ELSE tasks[d]]
    /\ UNCHANGED <<nextMsgId, acked, mainPc, slept>>
    /\ UNCHANGED <<favVars, movieVars, idVars>>

\* aio_pika.connect instead of aio_pika.connect_robust
connect_plain == FALSE

\* aio_pika.connect_robust: the connection reconnects by itself
connect_robust == TRUE

\* The robust connection, after its reconnect interval, connects again and
\* restores its channel, the declared queue and the consumer.  The tasks that
\* ran when the connection was lost have ended by then: none of them awaits
\* anything but its ack, which fails at once on a channel that is gone.
Reconnect ==
    /\ connect_robust
    /\ mainPc = "consuming" /\ ~ registered
    /\ \A d \in 1..Len(tasks) : tasks[d].pc = "exited"
    /\ registered' = TRUE
    /\ UNCHANGED <<queue, nextMsgId, tasks, acked, mainPc, failures, slept>>
    /\ UNCHANGED <<favVars, movieVars, idVars>>

(***************************************************************************)
(* user_service: start-up, the event publisher, registration               *)
(***************************************************************************)
\* retries = 5
RETRIES == 5
\* await asyncio.sleep(5)
RETRY_DELAY == 5

pubObject == <<pubConnection, pubChannel>>
connectVars == <<connPc, retries, attempts, waited>>
regVars == <<users, nextUserId, reg>>

\* lifespan(): the HTTP client is created and publisher.connect() is called.
Startup ==
    /\ lifePc = "init"
    /\ lifePc' = "connecting"
    /\ httpOpen' = TRUE
    /\ connPc' = "try"
    /\ retries' = RETRIES
    /\ UNCHANGED <<pubObject, attempts, waited, handed, publishes, closes, lastCall, regVars>>
    /\ UNCHANGED <<favVars, movieVars, notifVars>>

\* a connect() that never gives up
retries_unchanged(n) == n

\* retries -= 1
retries_decremented(n) == n - 1

\* One turn of the loop of connect(): connect_robust and connection.channel()
\* succeed, and connect() returns; or one of them raises, and connect() raises
\* in its turn when no retry is left, or sleeps.  lifespan() reaches its yield
\* when connect() returns, and ends with the exception when it raises.
ConnectAttempt(connected, opened) ==
    /\ connPc = "try" /\ retries > 0
    /\ attempts' = attempts + 1
    /\ pubConnection' = IF connected THEN "open" ELSE pubConnection
    /\ IF connected /\ opened
       THEN /\ pubChannel' = "open"
            /\ connPc' = "returned"
            /\ lifePc' = "serving"
            /\ UNCHANGED retries
       ELSE /\ retries' = retries_decremented(retries)
            /\ connPc' = IF retries' = 0 THEN "raised" ELSE "sleep"
            /\ lifePc' = IF retries' = 0 THEN "aborted" ELSE lifePc
            /\ UNCHANGED pubChannel
    /\ UNCHANGED <<httpOpen, waited, handed, publishes, closes, lastCall, regVars>>
    /\ UNCHANGED <<favVars, movieVars, notifVars>>

\* await asyncio.sleep(5), then the loop tests "retries > 0"
ConnectSleep ==
    /\ connPc = "sleep"
    /\ waited' = waited + RETRY_DELAY
    /\ connPc' = "try"
    /\ UNCHANGED <<lifePc, httpOpen, pubObject, retries, attempts, handed, publishes, closes,
                   lastCall, regVars>>
    /\ UNCHANGED <<favVars, movieVars, notifVars>>

\* a message_body under the event name "UserRegistered"
message_body_user_registered(user_id, email) ==
    JsonObject(<<"UserRegistered">>, <<user_id>>, <<email>>)

\* message_body of publish_user_created
message_body(user_id, email) == JsonObject(<<"UserCreated">>, <<user_id>>, <<email>>)

\* publish_user_created without its test of self.channel: the send is tried
channel_missing_unchecked(channel) == FALSE

\* "if not self.channel"
channel_missing(channel) == channel = "None"

\* publish_user_created where the failure of the send is raised again
publish_user_created_reraising(channel, delivered, user_id, email) ==
    IF channel_missing(channel)
    THEN [sent |-> <<>>, raised |-> FALSE, log |-> "RabbitMQ channel not initialized"]
    ELSE IF channel = "open" /\ delivered
    THEN [sent |-> <<message_body(user_id, email)>>, raised |-> FALSE,
          log |-> "Published UserCreated event"]
    ELSE [sent |-> <<>>, raised |-> TRUE, log |-> "Failed to publish UserCreated event"]

\* publish_user_created: what the broker receives, whether the call raises,
\* and the line it logs.  Without a channel it logs and returns; a send that
\* raises (always, on a channel that is None or closed) is caught and logged.
publish_user_created(channel, delivered, user_id, email) ==
    IF channel_missing(channel)
    THEN [sent |-> <<>>, raised |-> FALSE, log |-> "RabbitMQ channel not initialized"]
    ELSE IF channel = "open" /\ delivered
    THEN [sent |-> <<message_body(user_id, email)>>, raised |-> FALSE,
          log |-> "Published UserCreated event"]
    ELSE [sent |-> <<>>, raised |-> FALSE, log |-> "Failed to publish UserCreated event"]

\* routing_key="user_created_queue"
routing_key == "user_created_queue"

\* self.channel.default_exchange.publish(message, routing_key=...): the default
\* exchange of the broker routes a message to the queue whose name is the
\* routing key, and drops a message whose routing key names no queue.  The
\* broker holds one queue, of the name main() declares; the new messages take
\* the next ids, from "first" on.
default_exchange(key, bodies, first) ==
    IF key = QUEUE_NAME
    THEN [i \in 1..Len(bodies) |->
            [id |-> first + i - 1, body |-> bodies[i], redelivered |-> FALSE]]
    ELSE <<>>

\* lifespan() is not inside connect(): the publisher can be called.
Callable == lifePc \in {"init", "serving", "stopped"}

\* A call of publisher.publish_user_created(user_id, email).
PublishUserCreated(user_id, email, delivered) ==
    /\ Callable
    /\ publishes < MaxPublish
    /\ publishes' = publishes + 1
    /\ LET end == publish_user_created(pubChannel, delivered, user_id, email) IN
       /\ handed' = handed \o end.sent
       /\ queue' = queue \o default_exchange(routing_key, end.sent, nextMsgId)
       /\ nextMsgId' = nextMsgId + Len(default_exchange(routing_key, end.sent, nextMsgId))
       /\ lastCall' = [op |-> "publish", on |-> pubChannel, raised |-> end.raised,
                       log |-> end.log]
    /\ UNCHANGED <<lifePc, httpOpen, pubObject, connectVars, closes, regVars>>
    /\ UNCHANGED <<tasks, acked, mainPc, registered, failures, slept>>
    /\ UNCHANGED <<favVars, movieVars>>

\* close() without its test of self.connection
close_unguarded(connection) ==
    IF connection = "None"
    THEN [connection |-> connection, raised |-> TRUE, log |-> ""]
    ELSE [connection |-> "closed", raised |-> FALSE, log |-> "RabbitMQ connection closed"]

\* close(): "if self.connection: await self.connection.close()".  Closing a
\* connection that is closed leaves it closed.
close(connection) ==
    IF connection = "None"
    THEN [connection |-> connection, raised |-> FALSE, log |-> ""]
    ELSE [connection |-> "closed", raised |-> FALSE, log |-> "RabbitMQ connection closed"]

\* The effect of a call of publisher.close(); a channel closes with its
\* connection.
Closing ==
    LET end == close(pubConnection) IN
    /\ pubConnection' = end.connection
    /\ pubChannel' = IF pubChannel = "open" /\ end.connection = "closed"
                     THEN "closed" ELSE pubChannel
    /\ lastCall' = [op |-> "close", on |-> pubConnection, raised |-> end.raised,
                    log |-> end.log]
    /\ closes' = closes + 1

\* A call of publisher.close() outside lifespan().
CloseCall ==
    /\ lifePc \in {"init", "stopped"}
    /\ closes < MaxCloses
    /\ Closing
    /\ UNCHANGED <<lifePc, httpOpen, connectVars, handed, publishes, regVars>>
    /\ UNCHANGED <<favVars, movieVars, notifVars>>

\* lifespan() after its yield: await resources["http_client"].aclose()
ShutdownHttp ==
    /\ lifePc = "serving"
    /\ \A r \in DOMAIN reg : reg[r].pc \in {"idle", "done"}
    /\ lifePc' = "closing"
    /\ httpOpen' = FALSE
    /\ UNCHANGED <<pubObject, connectVars, handed, publishes, closes, lastCall, regVars>>
    /\ UNCHANGED <<favVars, movieVars, notifVars>>

\* lifespan(): await publisher.close()
ShutdownPublisher ==
    /\ lifePc = "closing"
    /\ lifePc' = "stopped"
    /\ Closing
    /\ UNCHANGED <<httpOpen, connectVars, handed, publishes, regVars>>
    /\ UNCHANGED <<favVars, movieVars, notifVars>>

Regs == 1..MaxReg
Emails == {"a@b.com", "c@d.com"}
IdleReg == [pc |-> "idle", email |-> "", status |-> 0, user_id |-> 0]

FreeReg(r) ==
    /\ reg[r].pc = "idle"
    /\ \A q \in Regs : q < r => reg[q].pc # "idle"

\* select(User).where(User.email == user_in.email)
UsersWith(email) == { u \in users : u.email = email }

\* POST /register: create_user looks the e-mail up; taken: 400.
RegisterRequest(r, email) ==
    /\ lifePc = "serving"
    /\ FreeReg(r)
    /\ reg' = [reg EXCEPT ![r] =
                 IF UsersWith(email) # {}
                 THEN [IdleReg EXCEPT !.pc = "done", !.email = email, !.status = 400]
                 ELSE [IdleReg EXCEPT !.pc = "commit", !.email = email]]
    /\ UNCHANGED <<users, nextUserId>>
    /\ UNCHANGED <<lifePc, httpOpen, pubObject, connectVars, handed, publishes, closes, lastCall>>
    /\ UNCHANGED <<favVars, movieVars, notifVars>>

\* User.email: unique=True
email_unique(rows, email) == ~ \E u \in rows : u.email = email

\* create_user: db.add, commit, refresh, return new_user.  An IntegrityError of
\* the commit is not caught (500).  Nothing here publishes the publisher.
RegisterCommit(r) ==
    /\ reg[r].pc = "commit"
    /\ IF email_unique(users, reg[r].email)
       THEN /\ users' = users \cup {[id |-> nextUserId, email |-> reg[r].email]}
            /\ nextUserId' = nextUserId + 1
            /\ reg' = [reg EXCEPT ![r] = [@ EXCEPT !.pc = "done", !.status = 200,
                                                   !.user_id = nextUserId]]
       ELSE /\ reg' = [reg EXCEPT ![r] = [@ EXCEPT !.pc = "done", !.status = 500]]
            /\ UNCHANGED <<users, nextUserId>>
    /\ UNCHANGED <<lifePc, httpOpen, pubObject, connectVars, handed, publishes, closes, lastCall>>
    /\ UNCHANGED <<favVars, movieVars, notifVars>>

Init ==
    /\ favorites = {}
    /\ nextFavId = 1
    /\ dbClock = 1
    /\ req = [r \in Reqs |-> IdleReq]
    /\ cache = [k \in CacheKeys |-> <<>>]
    /\ now = 0
    /\ sreq = [r \in Searches |-> IdleSearch]
    /\ tmdbCalls = 0
    /\ written = [k \in CacheKeys |-> [at |-> -1, data |-> <<>>]]
    /\ answered = [k \in CacheKeys |-> [empty |-> 0, nonEmpty |-> FALSE]]
    /\ lastLog = [slot |-> 0, query |-> <<>>, line |-> ""]
    /\ lookup = [status |-> 0, json |-> <<>>]
    /\ tmdbQuery = <<>>
    /\ movieLife = "init"
    /\ movieOpen = [res \in MovieResources |-> FALSE]
    /\ queue = <<>>
    /\ nextMsgId = 1
    /\ tasks = <<>>
    /\ acked = {}
    /\ mainPc = "connect"
    /\ registered = FALSE
    /\ failures = 0
    /\ slept = 0
    /\ lifePc = "init"
    /\ httpOpen = FALSE
    /\ pubConnection = "None"
    /\ pubChannel = "None"
    /\ connPc = "idle"
    /\ retries = 0
    /\ attempts = 0
    /\ waited = 0
    /\ handed = <<>>
    /\ publishes = 0
    /\ closes = 0
    /\ lastCall = [op |-> "none", on |-> "None", raised |-> FALSE, log |-> ""]
    /\ users = {}
    /\ nextUserId = 1
    /\ reg = [r \in Regs |-> IdleReg]

NextFavorites ==
    \/ \E r \in Reqs, u \in Users, m \in Movies, resp \in MovieServiceResponses :
          AddRequest(r, u, m, resp)
    \/ \E r \in Reqs : AddCommit(r)
    \/ \E r \in Reqs, u \in Users :
          \E answer \in get_user_favorites(u) : ListRequest(r, u, answer)
    \/ \E r \in Reqs, u \in Users, m \in Movies : RemoveRequest(r, u, m)
    \/ \E r \in Reqs : RemoveDelete(r)

SpecFavorites == Init /\ [][NextFavorites]_vars

NextCatalog ==
    \/ \E r \in Searches, query \in Queries : SearchGet(r, query)
    \/ \E r \in Searches, resp \in TmdbResponses : SearchUpstream(r, resp)
    \/ \E r \in Searches : SearchSet(r)
    \/ \E t \in Instants : Tick(t)
    \/ MovieStartup
    \/ MovieShutdownFirst
    \/ MovieShutdownSecond

SpecCatalog == Init /\ [][NextCatalog]_vars

\* The movie service within one second: the lookups by id among the searches.
NextLookup ==
    \/ \E m \in Movies, o \in GetMovieByIdOutcomes, e \in MovieEntries : GetMovieDetails(m, o, e)
    \/ \E r \in Searches, query \in Queries : SearchGet(r, query)
    \/ \E r \in Searches, resp \in TmdbResponses : SearchUpstream(r, resp)
    \/ \E r \in Searches : SearchSet(r)
    \/ MovieStartup
    \/ MovieShutdownFirst
    \/ MovieShutdownSecond

SpecLookup == Init /\ [][NextLookup]_vars

NextNotifier ==
    \/ \E body \in Bodies : Publish(body)
    \/ \E ok \in BOOLEAN : MainConnect(ok)
    \/ \E ok \in BOOLEAN : MainChannel(ok)
    \/ \E ok \in BOOLEAN : MainDeclare(ok)
    \/ \E ok \in BOOLEAN : MainConsume(ok)
    \/ MainSleep
    \/ Deliver
    \/ \E d \in 1..Len(tasks) : Handle(d)
    \/ \E d \in 1..Len(tasks) : Exit(d)
    \/ Crash
    \/ Restart
    \/ Drop
    \/ Reconnect

SpecNotifier == Init /\ [][NextNotifier]_vars

NextIdentity ==
    \/ Startup
    \/ \E connected, opened \in BOOLEAN : ConnectAttempt(connected, opened)
    \/ ConnectSleep
    \/ \E u \in Users, e \in Emails, delivered \in BOOLEAN : PublishUserCreated(u, e, delivered)
    \/ CloseCall
    \/ ShutdownHttp
    \/ ShutdownPublisher
    \/ \E r \in Regs, e \in Emails : RegisterRequest(r, e)
    \/ \E r \in Regs : RegisterCommit(r)

\* The two services with a lifespan(): the user service, and the movie
\* service as far as its resources go.
NextTeardown ==
    \/ NextIdentity
    \/ MovieStartup
    \/ MovieShutdownFirst
    \/ MovieShutdownSecond

SpecTeardown == Init /\ [][NextTeardown]_vars

\* The publisher of the user service and the consumer, at one broker: the
\* events of publish_user_created are the only messages of the queue.
NextWire ==
    \/ Startup
    \/ \E connected, opened \in BOOLEAN : ConnectAttempt(connected, opened)
    \/ ConnectSleep
    \/ \E u \in Users, e \in Emails, delivered \in BOOLEAN : PublishUserCreated(u, e, delivered)
    \/ ShutdownHttp
    \/ ShutdownPublisher
    \/ \E ok \in BOOLEAN : MainConnect(ok)
    \/ \E ok \in BOOLEAN : MainChannel(ok)
    \/ \E ok \in BOOLEAN : MainDeclare(ok)
    \/ \E ok \in BOOLEAN : MainConsume(ok)
    \/ MainSleep
    \/ Deliver
    \/ \E d \in 1..Len(tasks) : Handle(d)
    \/ \E d \in 1..Len(tasks) : Exit(d)
    \/ Crash
    \/ Restart
    \/ Drop
    \/ Reconnect

SpecWire == Init /\ [][NextWire]_vars

\* connect() is awaited by lifespan(): its loop runs on, its sleep ends.
SpecIdentity ==
    /\ Init /\ [][NextIdentity]_vars
    /\ WF_vars(\E connected, opened \in BOOLEAN : ConnectAttempt(connected, opened))
    /\ WF_vars(ConnectSleep)

\* The consumer where every step that can be taken is taken in the end: the
\* event loop runs the tasks that are ready, the broker answers and delivers,
\* the reconnect interval and the sleep elapse, and a process that has ended
\* is started again.
MainSucceeds == MainConnect(TRUE) \/ MainChannel(TRUE) \/ MainDeclare(TRUE) \/ MainConsume(TRUE)
SpecNotifierLive ==
    /\ SpecNotifier
    /\ WF_vars(MainSucceeds) /\ WF_vars(MainSleep)
    /\ WF_vars(Restart) /\ WF_vars(Reconnect)
    /\ WF_vars(Deliver)
    /\ WF_vars(\E d \in 1..Len(tasks) : Handle(d))
    /\ WF_vars(\E d \in 1..Len(tasks) : Exit(d))

(***************************************************************************)
(* Properties of the favorites (SpecFavorites)                             *)
(***************************************************************************)
Pairs == Users \X Movies
IsAdd(r, u, m) == req[r].kind = "add" /\ req[r].user = u /\ req[r].movie = m
IsRemove(r, u, m) == req[r].kind = "remove" /\ req[r].user = u /\ req[r].movie = m
\* the calls of add_to_favorites for (u, m) whose movie the catalog confirmed
ConfirmedAdds(u, m) == { r \in Reqs : IsAdd(r, u, m) /\ req[r].movie_status = 200 }
\* some remove_from_favorites for (u, m) has issued its DELETE
Removed(u, m) == \E r \in Reqs : IsRemove(r, u, m) /\ Done(r) /\ req[r].status = 204
RemovedBy(u) == \E m \in Movies : Removed(u, m)

\* C1: concurrent add_to_favorites calls for one (user, movie) whose movie the
\* catalog confirms: the store never holds two rows for the pair; with no
\* removal of the pair at most one call succeeds, and once all the calls have
\* answered exactly one has succeeded (200), its row is the one stored, and
\* every other call has failed with 400.
C1_OneRecordPerPair ==
    /\ \A f, g \in favorites :
          (f.user_id = g.user_id /\ f.movie_id = g.movie_id) => f = g
    /\ \A p \in Pairs :
          LET calls == ConfirmedAdds(p[1], p[2])
              ok == { r \in calls : Done(r) /\ req[r].status = 200 }
              dup == { r \in calls : Done(r) /\ req[r].status = 400 }
          IN  ~ Removed(p[1], p[2]) =>
                /\ Cardinality(ok) =< 1
                /\ (calls # {} /\ \A r \in calls : Done(r)) =>
                      /\ Cardinality(ok) = 1
                      /\ dup = calls \ ok
                      /\ Matching(p[1], p[2]) = { req[r].result[1] : r \in ok }

\* Two overlapping calls for one pair: the one that arrived first answered 400
\* because the later one committed first.
C1_Witness ==
    \E p \in Pairs : \E r1, r2 \in ConfirmedAdds(p[1], p[2]) :
        /\ r1 < r2
        /\ Done(r1) /\ req[r1].status = 400
        /\ Done(r2) /\ req[r2].status = 200
        /\ ~ Removed(p[1], p[2])

\* C4: add_to_favorites for a movie the movie service answers 404 for fails
\* with 404 and leaves the table as it was.
C4_AbsentMovieIs404 ==
    [][\A r \in Reqs :
         (req[r].pc = "idle" /\ req'[r].kind = "add" /\ req'[r].movie_status = 404)
            => /\ req'[r].pc = "done"
               /\ req'[r].status = 404
               /\ req'[r].result = <<>>
               /\ favorites' = favorites]_vars

C4_Witness ==
    \E r \in Reqs :
        /\ req[r].kind = "add" /\ Done(r)
        /\ req[r].movie_status = 404 /\ req[r].status = 404
        /\ favorites # {}

\* C5: add_to_favorites when the movie service cannot be reached (transport
\* failure) or answers a non-2xx status other than 404 fails with 502, not with
\* an uncaught transport error (500), and leaves the table as it was.
C5_CatalogFailureIs502 ==
    [][\A r \in Reqs :
         (/\ req[r].pc = "idle" /\ req'[r].kind = "add"
          /\ req'[r].movie_status # 404
          /\ (req'[r].movie_status = 0 \/ req'[r].movie_status >= 400))
            => /\ req'[r].pc = "done"
               /\ req'[r].status = 502
               /\ req'[r].result = <<>>
               /\ favorites' = favorites]_vars

C5_Witness ==
    /\ \E r \in Reqs :
        req[r].kind = "add" /\ Done(r) /\ req[r].movie_status = 0 /\ req[r].status = 502
    /\ \E r \in Reqs :
        req[r].kind = "add" /\ Done(r) /\ req[r].movie_status = 502 /\ req[r].status = 502
    /\ favorites # {}

\* the rows of the successful add_to_favorites calls of user u
AddedBy(u) ==
    { r \in Reqs : req[r].kind = "add" /\ req[r].user = u /\ Done(r) /\ req[r].status = 200 }
Position(answer, row) == CHOOSE i \in 1..Len(answer) : answer[i] = row

\* C6: get_user_favorites(u), when u's N successful add_to_favorites calls were
\* followed by no removal, returns exactly the N rows of those calls (the empty
\* sequence when N = 0), never an older row before a newer one, and the row of a
\* call that arrived after another had answered before the row of that other.
C6_ListNewestFirst ==
    [][\A r \in Reqs :
         (req[r].pc = "idle" /\ req'[r].kind = "list" /\ ~ RemovedBy(req'[r].user))
            => LET answer == req'[r].result
                   added == AddedBy(req'[r].user)
               IN /\ req'[r].pc = "done" /\ req'[r].status = 200
                  /\ Len(answer) = Cardinality(added)
                  /\ { answer[i] : i \in 1..Len(answer) } = { req[a].result[1] : a \in added }
                  /\ \A i, j \in 1..Len(answer) :
                        i < j => answer[i].added_at >= answer[j].added_at
                  /\ \A a, b \in added :
                        b \in req[a].after =>
                           Position(answer, req[a].result[1]) < Position(answer, req[b].result[1])]_vars

C6_Witness ==
    \E r \in Reqs :
        /\ req[r].kind = "list" /\ Done(r) /\ ~ RemovedBy(req[r].user)
        /\ Len(req[r].result) = 2
        /\ req[r].result[1].added_at > req[r].result[2].added_at
        /\ req[r].result[1].movie_id # req[r].result[2].movie_id

\* C7: remove_from_favorites for a pair with no stored row (as after a first
\* removal) answers 404 (False) without an error and leaves the table as it was.
C7_RemoveIdempotent ==
    [][\A r \in Reqs :
         (/\ req[r].pc = "idle" /\ req'[r].kind = "remove"
          /\ Matching(req'[r].user, req'[r].movie) = {})
            => /\ req'[r].pc = "done"
               /\ req'[r].status = 404
               /\ favorites' = favorites]_vars

\* A second removal, arrived after the first had answered 204, answered 404.
C7_Witness ==
    \E p \in Pairs : \E r1, r2 \in Reqs :
        /\ IsRemove(r1, p[1], p[2]) /\ Done(r1) /\ req[r1].status = 204
        /\ IsRemove(r2, p[1], p[2]) /\ Done(r2) /\ req[r2].status = 404
        /\ r1 \in req[r2].after

(***************************************************************************)
(* Properties of the search cache (SpecCatalog)                            *)
(***************************************************************************)
\* a search request arrives in this step
Arrives(r) == sreq[r].pc = "idle" /\ sreq'[r].pc # "idle"

\* C2: a search whose key was last written, with a non-empty list, less than
\* 300 seconds ago is answered with that list from the cache, and TMDB
\* receives no call.
C2_HitWithinTTL ==
    [][\A r \in Searches :
         LET w == written[cache_key(lastLog'.query)] IN
         (Arrives(r) /\ w.at >= 0 /\ w.data # <<>> /\ now < w.at + 300)
            => /\ sreq'[r].pc = "done"
               /\ sreq'[r].status = 200
               /\ sreq'[r].result = w.data
               /\ sreq'[r].calls = 0
               /\ tmdbCalls' = tmdbCalls]_vars

\* A search answered from the cache 299 seconds after the only write.
C2_Witness ==
    \E r \in Searches : \E k \in CacheKeys :
        /\ sreq[r].pc = "done" /\ sreq[r].hit /\ sreq[r].result # <<>>
        /\ lastLog = [slot |-> r, query |-> lastLog.query, line |-> "Cache HIT"]
        /\ k = cache_key(lastLog.query)
        /\ written[k].at = 1 /\ now = 300 /\ tmdbCalls = 1

\* C3: no cache entry holds an empty list; a search that TMDB answers with an
\* empty list writes nothing to the cache; and while TMDB has answered the
\* searches for a key with empty lists only, every search for it misses the
\* cache and calls TMDB, once.
C3_NoNegativeCaching ==
    /\ [](/\ \A k \in CacheKeys :
               /\ cache[k] # <<>> => json_loads(cache[k][1].value) # <<>>
               /\ ~ answered[k].nonEmpty => cache[k] = <<>>
          /\ \A r \in Searches :
               (sreq[r].pc = "done" /\ sreq[r].status = 200 /\ sreq[r].result = <<>>)
                  => ~ sreq[r].hit /\ sreq[r].calls = 1)
    /\ [][\A r \in Searches :
            /\ (Arrives(r) /\ ~ answered[cache_key(lastLog'.query)].nonEmpty)
                  => sreq'[r].pc = "call_tmdb"
            /\ (/\ sreq[r].pc = "call_tmdb" /\ sreq'[r].pc = "done"
                /\ sreq'[r].status = 200)
                  => /\ sreq'[r].result = <<>>
                     /\ cache' = cache
                     /\ tmdbCalls' = tmdbCalls + 1]_vars

\* TMDB has answered two searches for one key, both with an empty list.
C3_Witness ==
    \E k \in CacheKeys :
        /\ answered[k] = [empty |-> 2, nonEmpty |-> FALSE]
        /\ cache[k] = <<>>
        /\ tmdbCalls = 2
        /\ \E r1, r2 \in Searches :
              /\ r1 # r2
              /\ \A r \in {r1, r2} :
                    sreq[r].pc = "done" /\ sreq[r].result = <<>> /\ sreq[r].calls = 1

(***************************************************************************)
(* Properties of the consumer (SpecNotifier)                               *)
(***************************************************************************)
Delivered == 1..Len(tasks)
\* the body is a JSON object with this event name, a user id and an e-mail
WellFormed(body, name) ==
    /\ body.syntax = "object" /\ body.event = <<name>>
    /\ body.user_id # <<>> /\ body.email # <<>>

\* A delivery of a well-formed message with this event name makes no welcome
\* notification before its handler runs, exactly one, of the message's user id
\* and e-mail, when it has run, and is then acknowledged.
WelcomeOncePerDelivery(name) ==
    \A d \in Delivered :
        LET t == tasks[d] IN
        WellFormed(t.body, name) =>
            /\ t.pc = "received" => t.emails = <<>>
            /\ t.pc \in {"handled", "exited"} =>
                  /\ t.emails = <<[user_id |-> t.body.user_id, email |-> t.body.email]>>
                  /\ t.warnings = <<>> /\ t.errors = 0
            /\ (t.pc = "exited" /\ t.live) => t.disposition = "ack"

C9_UnknownEventDropped ==
    \A d \in Delivered :
        LET t == tasks[d] IN
        (t.body.syntax = "object" /\ t.body.event # <<"UserCreated">>) =>
            /\ t.emails = <<>>
            /\ t.pc \in {"handled", "exited"} =>
                  t.warnings = <<t.body.event>> /\ t.errors = 0
            /\ (t.pc = "exited" /\ t.live) =>
                  /\ t.disposition = "ack"
                  /\ \A i \in 1..Len(queue) : queue[i].id # t.msg
                  /\ \A e \in Delivered : tasks[e].msg = t.msg => e =< d

C9_Witness ==
    \E d \in Delivered :
        /\ tasks[d].body.event = <<"UserRegistered">>
        /\ tasks[d].pc = "exited" /\ tasks[d].disposition = "ack"
        /\ tasks[d].warnings = << <<"UserRegistered">> >>

\* C10: a message is acknowledged only when its handler has completed, by
\* success or by a caught failure: never on delivery, never before the block.
C10_AckAfterHandler ==
    \A d \in Delivered :
        /\ tasks[d].disposition # "none" =>
              tasks[d].pc = "exited" /\ tasks[d].outcome \in {"success", "caught"}
        /\ tasks[d].pc = "received" => tasks[d].outcome = "none"

\* A message acknowledged whose handling failed and was caught, while the
\* next is handled and not yet acknowledged.
C10_Witness ==
    \E e, f \in Delivered :
        /\ tasks[e].disposition = "ack" /\ tasks[e].outcome = "caught"
        /\ tasks[e].msg = 1 /\ acked = {1}
        /\ tasks[f].pc = "handled" /\ tasks[f].disposition = "none"
        /\ tasks[f].outcome = "success"

\* the message is in the queue, ready for delivery
Ready(m) == \E i \in 1..Len(queue) : queue[i].id = m
\* the message is delivered and unacknowledged
Held(m) == \E d \in Delivered : tasks[d].msg = m /\ Unacked(tasks[d])
Published == 1..(nextMsgId - 1)

\* C11: every published message is in the queue, or delivered and
\* unacknowledged, or acknowledged, and one of the three only; when the
\* consumer process ends or loses its connection, every message it holds
\* unacknowledged is back in the queue; a message becomes acknowledged only in
\* the step that ends a task whose handler has run to completion; and every
\* message in the queue is acknowledged in the end.
C11_AtLeastOnce ==
    /\ [](\A m \in Published :
            /\ Ready(m) \/ Held(m) \/ m \in acked
            /\ ~ (Ready(m) /\ Held(m)) /\ ~ (Ready(m) /\ m \in acked)
            /\ ~ (Held(m) /\ m \in acked))
    /\ [][\A m \in Published :
            /\ (Held(m) /\ (mainPc' = "dead" \/ (registered /\ ~ registered')))
                  => Ready(m)'
            /\ (m \in acked' /\ m \notin acked) =>
                  \E d \in Delivered :
                     /\ tasks[d].msg = m /\ tasks[d].pc = "handled"
                     /\ tasks[d].outcome \in {"success", "caught"}]_vars
    /\ \A m \in 1..MaxMsgs : Ready(m) ~> (m \in acked)

\* A message delivered a second time, after a failure, and acknowledged.
C11_Witness ==
    \E d \in Delivered :
        /\ tasks[d].redelivered /\ tasks[d].pc = "exited"
        /\ tasks[d].disposition = "ack" /\ tasks[d].outcome = "success"
        /\ tasks[d].msg \in acked /\ failures = 1

\* the body is no JSON, or JSON that is no object (body.get raises)
Poisoned(body) == body.syntax # "object"

\* C12: the failure of the handler of a message that cannot be deserialized,
\* or that makes the handler raise, is caught and logged once, nothing is
\* notified, and the message is acknowledged and not back in the queue; the
\* messages behind such a message in the queue are acknowledged in the end.
C12_PoisonedMessageAcked ==
    /\ [](\A d \in Delivered :
            LET t == tasks[d] IN
            Poisoned(t.body) =>
               /\ t.pc \in {"handled", "exited"} =>
                     /\ t.outcome = "caught" /\ t.errors = 1
                     /\ t.emails = <<>> /\ t.warnings = <<>>
               /\ (t.pc = "exited" /\ t.live) =>
                     /\ t.disposition = "ack" /\ t.msg \in acked
                     /\ ~ Ready(t.msg))
    /\ \A m \in 1..MaxMsgs :
          (\E i, j \in 1..Len(queue) :
              i < j /\ Poisoned(queue[i].body) /\ queue[j].id = m) ~> (m \in acked)

\* A message that is no JSON was acknowledged; the message behind it, JSON
\* that is no object, has been handled and is acknowledged in its turn.
C12_Witness ==
    /\ acked = {1, 2} /\ queue = <<>> /\ failures = 0
    /\ \E e \in Delivered :
          /\ tasks[e].msg = 2 /\ tasks[e].body.syntax = "array"
          /\ tasks[e].pc = "exited" /\ tasks[e].outcome = "caught"
          /\ tasks[e].errors = 1 /\ tasks[e].disposition = "ack"

Registered == { r \in Regs : reg[r].pc = "done" /\ reg[r].status = 200 }

\* C13: every registration answered 200 has its event, with the id and the
\* e-mail of the new user, among the messages the publisher has placed on the
\* queue.
C13_RegistrationPublishes ==
    \A r \in Registered :
        \E i \in 1..Len(handed) :
            /\ handed[i].user_id = <<reg[r].user_id>>
            /\ handed[i].email = <<reg[r].email>>

\* a step of publish_user_created
PublishStep == publishes' # publishes

\* C14: a call of publish_user_created never raises, whatever the channel and
\* the send do, and leaves the users and the registrations as they are; a
\* committed user stays, and a registration answered 200 stays answered 200.
C14_PublishFailureSwallowed ==
    [][ /\ PublishStep => (~ lastCall'.raised /\ regVars' = regVars)
        /\ users \subseteq users'
        /\ \A r \in Registered : reg'[r] = reg[r] ]_vars

\* A user is registered, and the publication of its event has failed in the
\* send: the call has returned, the user is there.
C14_Witness ==
    /\ lastCall.op = "publish" /\ lastCall.on = "open" /\ ~ lastCall.raised
    /\ lastCall.log = "Failed to publish UserCreated event"
    /\ handed = <<>>
    /\ \E r \in Registered : \E u \in users : u.id = reg[r].user_id

\* C15: a call of publish_user_created that finds no channel sends nothing,
\* logs, and returns normally; and nothing is kept to be sent later: the broker
\* receives a message only in a call that finds an open channel.
C15_NoChannelDropsEvent ==
    [][ /\ (PublishStep /\ pubChannel = "None") =>
              /\ handed' = handed
              /\ ~ lastCall'.raised
              /\ lastCall'.log = "RabbitMQ channel not initialized"
        /\ handed' # handed => (PublishStep /\ pubChannel = "open") ]_vars

\* An event was published before the start-up and dropped; connect() has
\* succeeded since, and the broker has received nothing.
C15_Witness ==
    /\ lifePc = "serving" /\ pubChannel = "open"
    /\ publishes = 1 /\ handed = <<>>
    /\ lastCall.op = "publish" /\ lastCall.on = "None"
    /\ lastCall.log = "RabbitMQ channel not initialized"

\* connect() has ended
ConnectEnded == connPc \in {"returned", "raised"}

\* C16: connect() makes at most RETRIES attempts and has slept RETRY_DELAY
\* seconds between any two of them; once it has returned it makes no further
\* attempt, and it returns with the channel open; it raises only after RETRIES
\* failed attempts, and then the start-up has aborted and no request was or
\* will be taken; and a connect() that has begun always ends.
C16_ConnectTerminates ==
    /\ [](/\ attempts =< RETRIES
          /\ connPc = "try" => waited = RETRY_DELAY * attempts
          /\ connPc \in {"sleep", "returned", "raised"} =>
                waited = RETRY_DELAY * (attempts - 1)
          /\ connPc = "returned" => (pubChannel # "None" /\ lifePc # "aborted")
          /\ connPc = "raised" =>
                /\ attempts = RETRIES /\ lifePc = "aborted"
                /\ \A r \in Regs : reg[r].pc = "idle")
    /\ [][ConnectEnded => UNCHANGED <<connPc, attempts, waited>>]_vars
    /\ [][lifePc = "aborted" => UNCHANGED <<lifePc, reg>>]_vars
    /\ (connPc = "try") ~> ConnectEnded

\* connect() has raised after its fifth attempt, twenty seconds of sleep
\* behind it; the fourth attempt had opened a connection whose channel failed.
C16_Witness ==
    /\ connPc = "raised" /\ lifePc = "aborted"
    /\ attempts = 5 /\ waited = 20 /\ retries = 0
    /\ pubConnection = "open" /\ pubChannel = "None"

\* a step of close()
CloseStep == closes' # closes

\* C17: a call of close() on a publisher whose connection is closed, or that
\* has none, does not raise and changes nothing of the publisher, of what the
\* broker has received and of the users; after a close() the connection never
\* opens again, so a second close() leaves what the first has left.
C17_CloseIdempotent ==
    [][ /\ (CloseStep /\ pubConnection # "open") =>
              /\ ~ lastCall'.raised
              /\ pubObject' = pubObject
              /\ handed' = handed
              /\ regVars' = regVars
        /\ CloseStep => (~ lastCall'.raised /\ pubConnection' # "open")
        /\ pubConnection = "closed" => pubConnection' = "closed" ]_vars

\* close() was called on the publisher that lifespan() had closed.
C17_Witness ==
    /\ lifePc = "stopped" /\ closes = 2
    /\ lastCall.op = "close" /\ lastCall.on = "closed" /\ ~ lastCall.raised
    /\ pubConnection = "closed" /\ pubChannel = "closed"

\* C18: a search that has missed the cache and whose call of TMDB fails, in
\* transport or with a status that is not 2xx, ends with 502 in that step,
\* after one call of TMDB for the request, and leaves the cache as it is; no
\* search that has ended with 502 has called TMDB twice, or had a hit.
C18_UpstreamFailureIs502 ==
    /\ [](\A r \in Searches :
            (sreq[r].pc = "done" /\ sreq[r].status = 502) =>
                (sreq[r].calls = 1 /\ ~ sreq[r].hit))
    /\ [][\A r \in Searches, resp \in TmdbResponses :
             (SearchUpstream(r, resp) /\ ~ (resp.status \in 200..299)) =>
                 /\ sreq'[r].pc = "done" /\ sreq'[r].status = 502
                 /\ sreq'[r].calls = 1 /\ tmdbCalls' = tmdbCalls + 1
                 /\ cache' = cache /\ written' = written]_vars

\* The entry a first search has written is there, and a second search, for
\* another term, has ended with 502 after its one call of TMDB.
C18_Witness ==
    \E r, q \in Searches :
        /\ sreq[q].pc = "done" /\ sreq[q].status = 200 /\ sreq[q].calls = 1
        /\ sreq[r].pc = "done" /\ sreq[r].status = 502 /\ sreq[r].calls = 1
        /\ tmdbCalls = 2 /\ lastLog.slot = r /\ lastLog.line = "TMDB Error"
        /\ \E k \in DOMAIN cache : cache[k] # <<>>

\* C19: GET /movies/{movie_id} answers with what upstream does for the id:
\* the entry with 200, 404 when upstream reports not-found, 502 when upstream
\* cannot be reached; and the request leaves the cache and the searches as
\* they are.
C19_LookupPassthrough ==
    [][lookup' # lookup =>
          /\ cache' = cache /\ written' = written
          /\ sreq' = sreq /\ tmdbCalls' = tmdbCalls
          /\ \A m \in Movies, o \in GetMovieByIdOutcomes, e \in MovieEntries :
                GetMovieDetails(m, o, e) =>
                    /\ o = "entry" => lookup' = [status |-> 200, json |-> <<e>>]
                    /\ o = "none" => lookup' = [status |-> 404, json |-> <<>>]
                    /\ o = "unavailable" => lookup' = [status |-> 502, json |-> <<>>]]_vars

\* An id was answered 404 while the cache holds an entry of a search.
C19_Witness ==
    /\ lookup.status = 404
    /\ \E k \in DOMAIN cache : cache[k] # <<>>
    /\ \E r \in Searches : sreq[r].pc = "done" /\ sreq[r].hit

\* the steps of main() before it consumes
MainSteps == {"connect", "channel", "declare", "consume"}

C22_TakenEmailIs400 ==
    /\ \A u, v \in users : u.email = v.email => u = v
    /\ \A r \in Regs :
          reg[r].pc = "done" =>
              \/ /\ reg[r].status = 200
                 /\ [id |-> reg[r].user_id, email |-> reg[r].email] \in users
              \/ reg[r].status = 400 /\ reg[r].user_id = 0

\* C23: a search that has missed the cache calls TMDB, once, whatever the
\* other searches have done to the cache since; a search that holds a list to
\* cache writes it over whatever is under its key, with a TTL of its own, and
\* returns that list; a search that has called TMDB returns what TMDB has
\* answered to it.
C23_LastWriteWins ==
    [][\A r \in Searches :
         LET k == cache_key(sreq[r].query) IN
         /\ (sreq[r].pc = "call_tmdb" /\ sreq'[r] # sreq[r]) =>
               /\ tmdbCalls' = tmdbCalls + 1 /\ sreq'[r].calls = 1
               /\ cache' = cache
               /\ \A resp \in TmdbResponses :
                     (SearchUpstream(r, resp) /\ resp.status = 200 /\ resp.results # <<>>)
                        => (sreq'[r].pc = "cache_set" /\ sreq'[r].data = resp.results)
         /\ (sreq[r].pc = "cache_set" /\ sreq'[r] # sreq[r]) =>
               /\ cache' = [cache EXCEPT ![k] =
                              <<[value |-> json_dumps(sreq[r].data),
                                 expires |-> now + CACHE_TTL]>>]
               /\ sreq'[r].pc = "done" /\ sreq'[r].status = 200
               /\ sreq'[r].result = sreq[r].data /\ sreq'[r].calls = 1
               /\ tmdbCalls' = tmdbCalls]_vars

\* Two searches have missed the cache at the same second, for one key: each
\* has called TMDB and has returned its own list, and the cache holds the list
\* of the one that wrote last.
C23_Witness ==
    /\ now = 0 /\ tmdbCalls = 2
    /\ \E r1, r2 \in Searches :
          /\ sreq[r1].pc = "done" /\ ~ sreq[r1].hit /\ sreq[r1].result = <<1>>
          /\ sreq[r2].pc = "done" /\ ~ sreq[r2].hit /\ sreq[r2].result = <<2, 1>>
    /\ \E k \in CacheKeys :
          /\ cache[k] # <<>> /\ json_loads(cache[k][1].value) = <<2, 1>>
          /\ written[k].data = <<2, 1>>
          /\ \A j \in CacheKeys : j # k => cache[j] = <<>>

\* C24: a row enters the table only in the commit of an add_to_favorites call
\* that holds the entry the movie service has answered with a 2xx status for
\* the movie of the row; the title and the poster path of the row are those of
\* that entry ("Unknown" and None for a key the entry does not hold); and a
\* row that is in the table is left as it is or deleted, never changed.
C24_CheckPrecedesInsert ==
    [][ /\ \A f \in favorites' \ favorites :
              \E r \in Reqs :
                 /\ req[r].kind = "add" /\ req[r].pc = "add_commit"
                 /\ req'[r].pc = "done" /\ req'[r].status = 200
                 /\ req[r].movie_status \in 200..299
                 /\ req[r].movie_data # <<>>
                 /\ f.user_id = req[r].user /\ f.movie_id = req[r].movie
                 /\ LET entry == req[r].movie_data[1] IN
                    /\ f.movie_title =
                          IF entry.title = Missing THEN "Unknown" ELSE entry.title
                    /\ f.movie_poster_path =
                          IF entry.poster_path = Missing THEN None ELSE entry.poster_path
        /\ \A f \in favorites : \A g \in favorites' : g.id = f.id => g = f
        /\ \A r \in Reqs :
              (req[r].pc = "idle" /\ req'[r].pc = "add_commit") => favorites' = favorites
      ]_vars

\* A favorite with the title and the poster of the entry fetched for it is in
\* the table, after a later add of the same movie by another user was refused
\* by the movie service.
C24_Witness ==
    /\ \E f \in favorites : f.movie_title = "Dune" /\ f.movie_poster_path = "/dune.jpg"
    /\ \E r, q \in Reqs :
          /\ r < q
          /\ req[r].kind = "add" /\ Done(r) /\ req[r].status = 200
          /\ req[r].movie_status = 200
          /\ req[q].kind = "add" /\ Done(q) /\ req[q].status = 404
    /\ Cardinality(favorites) = 1

\* the deliveries whose handler or acknowledgment is still to come
InFlight == { d \in Delivered : tasks[d].live /\ tasks[d].pc \in {"received", "handled"} }

\* C25: at most one delivered message awaits its handler or its
\* acknowledgment; the handler of a message starts only when every message
\* delivered before it has been acknowledged.
C25_OneInFlight ==
    /\ Cardinality(InFlight) =< 1
    /\ \A d, e \in Delivered :
          (d < e /\ tasks[d].live /\ tasks[e].pc # "received") => tasks[d].pc = "exited"

\* C26: the entry of a key expires CACHE_TTL seconds after the write that made
\* it; a search answered from the cache leaves the entry and its expiry as
\* they are and returns the list of that write, no later than CACHE_TTL seconds
\* after it; and a search that arrives later than that misses the cache and
\* goes on to call TMDB.
C26_ExpiresAfterTTL ==
    /\ [](\A k \in CacheKeys :
             cache[k] # <<>> => cache[k][1].expires = written[k].at + CACHE_TTL)
    /\ [][\A r \in Searches :
            LET w == written[cache_key(lastLog'.query)] IN
            /\ (Arrives(r) /\ sreq'[r].hit) =>
                  /\ cache' = cache /\ written' = written
                  /\ w.at >= 0 /\ now =< w.at + CACHE_TTL
                  /\ sreq'[r].result = w.data
            /\ (Arrives(r) /\ now > w.at + CACHE_TTL) =>
                  /\ ~ sreq'[r].hit /\ sreq'[r].pc = "call_tmdb"
                  /\ cache' = cache]_vars

\* 301 seconds after the write of an entry, a search for its key has missed
\* the cache and is about to call TMDB a second time.
C26_Witness ==
    /\ now = CACHE_TTL + 1 /\ tmdbCalls = 1
    /\ \E r \in Searches :
          LET k == cache_key(sreq[r].query) IN
          /\ sreq[r].pc = "call_tmdb"
          /\ written[k].at = 0 /\ written[k].data # <<>>
          /\ cache[k] # <<>> /\ cache[k][1].expires = CACHE_TTL

\* two terms that are equal once lower-cased and trimmed
SameTerm(p, q) == Strip(Lower(p)) = Strip(Lower(q))

\* C27: two terms that are equal once lower-cased and trimmed have one cache
\* key; a search for a term that arrives less than CACHE_TTL seconds after a
\* non-empty list was written for such a term is answered with that list from
\* the cache, and TMDB receives no call; and the request a search sends to TMDB
\* after a miss carries its term as it came.
C27_NormalizedKeyRawQuery ==
    /\ [](\A p, q \in Queries : SameTerm(p, q) => cache_key(p) = cache_key(q))
    /\ [][\A r \in Searches :
            /\ \A q \in Queries :
                  LET w == written[cache_key(q)] IN
                  (/\ Arrives(r) /\ SameTerm(lastLog'.query, q)
                   /\ w.at >= 0 /\ w.data # <<>> /\ now < w.at + CACHE_TTL) =>
                      /\ sreq'[r].pc = "done" /\ sreq'[r].hit
                      /\ sreq'[r].status = 200 /\ sreq'[r].result = w.data
                      /\ tmdbCalls' = tmdbCalls /\ tmdbQuery' = tmdbQuery
            /\ (sreq[r].pc = "call_tmdb" /\ sreq'[r] # sreq[r]) =>
                  tmdbQuery' = sreq[r].query]_vars

\* TMDB was asked once, for " a" as it came; the search for "A" that followed
\* was answered from the cache.
C27_Witness ==
    /\ tmdbCalls = 1 /\ tmdbQuery = <<" ", "a">>
    /\ lastLog.query = <<"A">> /\ lastLog.line = "Cache HIT"
    /\ \E r \in Searches :
          /\ lastLog.slot = r
          /\ sreq[r].pc = "done" /\ sreq[r].hit /\ sreq[r].result # <<>>

\* the calls that have inserted the row of a pair, and those that have
\* returned True for having deleted it
Inserted(u, m) ==
    { r \in Reqs : req[r].kind = "add" /\ Done(r) /\ req[r].status = 200
                     /\ req[r].user = u /\ req[r].movie = m }
Deleted(u, m) ==
    { r \in Reqs : req[r].kind = "remove" /\ Done(r) /\ req[r].status = 204
                     /\ req[r].user = u /\ req[r].movie = m }

\* C28: every remove_from_favorites returns True or False, without an error,
\* and of the calls for one pair no more have returned True than rows of the
\* pair were inserted: a stored row is deleted by one call only.
C28_OneRemoveReturnsTrue ==
    /\ \A r \in Reqs :
          (req[r].kind = "remove" /\ Done(r)) => req[r].status \in {204, 404}
    /\ \A u \in Users, m \in Movies :
          Cardinality(Deleted(u, m)) =< Cardinality(Inserted(u, m))

\* C29: the step that closes the cache connection of the movie service, and
\* the step of lifespan() that closes the broker connection of the user
\* service, find the HTTP client of their service closed already; when either
\* service has stopped, both of its resources are closed; and no state has
\* the cache or the broker connection closed by the teardown while the HTTP
\* client of the service is open.
C29_HttpClientClosedFirst ==
    /\ [](/\ movieLife \in {"closing", "stopped"} => ~ movieOpen["http_client"]
          /\ movieLife = "stopped" => ~ movieOpen["redis"]
          /\ (movieLife # "init" /\ ~ movieOpen["redis"]) => ~ movieOpen["http_client"]
          /\ lifePc \in {"closing", "stopped"} => ~ httpOpen
          /\ lifePc = "stopped" => pubConnection = "closed"
          /\ pubConnection = "closed" => ~ httpOpen)
    /\ [][ /\ (movieOpen["redis"] /\ ~ movieOpen'["redis"]) =>
                 (~ movieOpen["http_client"] /\ movieLife = "closing")
           /\ (pubConnection = "open" /\ pubConnection' = "closed") =>
                 (~ httpOpen /\ lifePc = "closing")
           /\ (httpOpen /\ ~ httpOpen') => pubConnection = "open"
           /\ (movieOpen["http_client"] /\ ~ movieOpen'["http_client"]) =>
                 movieOpen["redis"] ]_vars

\* The movie service has closed its HTTP client and not yet its cache
\* connection; the user service has stopped, after a registration.
C29_Witness ==
    /\ movieLife = "closing"
    /\ ~ movieOpen["http_client"] /\ movieOpen["redis"]
    /\ lifePc = "stopped" /\ ~ httpOpen /\ pubConnection = "closed"
    /\ users # {}

\* the user a request acts for, in the step it takes
ActsFor(r) == IF req[r].pc = "idle" THEN req'[r].user ELSE req[r].user

\* C30: a step of a request of a user inserts and deletes rows of that user
\* only, every other row staying as it is; and the list a request returns
\* holds rows of its user only.
C30_PerUserIsolation ==
    [][\A r \in Reqs :
         req'[r] # req[r] =>
            /\ \A f \in (favorites' \ favorites) \cup (favorites \ favorites') :
                  f.user_id = ActsFor(r)
            /\ \A f \in favorites : f.user_id # ActsFor(r) => f \in favorites'
            /\ (req'[r].kind = "list" /\ req'[r].pc = "done") =>
                  \A i \in 1..Len(req'[r].result) :
                      req'[r].result[i].user_id = ActsFor(r)]_vars

\* Two users had the same movie in their favorites; one has removed it, and
\* the row of the other is there.
C30_Witness ==
    \E r \in Reqs : \E f \in favorites :
        /\ req[r].kind = "remove" /\ Done(r) /\ req[r].status = 204
        /\ f.movie_id = req[r].movie /\ f.user_id # req[r].user
        /\ favorites = {f}

(***************************************************************************)
(* The wire contract of the publisher and the consumer                     *)
(***************************************************************************)
\* The messages of the publisher that the broker holds or has delivered.
OnTheWire ==
    { queue[i].body : i \in 1..Len(queue) } \cup { tasks[d].body : d \in Delivered }

\* C31: every event publish_user_created hands to the broker is routed to the
\* queue of the name main() declares and consumes, and carries an event name
\* the dispatch of process_message recognizes: each one is a message of that
\* queue, and a handler that has run on one has logged the welcome e-mail and
\* no "Unknown event type" warning.
C31_WireContractAgrees ==
    /\ Len(handed) = nextMsgId - 1
    /\ \A body \in OnTheWire :
          /\ \E i \in 1..Len(handed) : handed[i] = body
          /\ is_user_created(body.event)
    /\ \A d \in Delivered :
          tasks[d].pc \in {"handled", "exited"} =>
              /\ tasks[d].warnings = <<>>
              /\ tasks[d].errors = 0
              /\ tasks[d].emails = <<[user_id |-> tasks[d].body.user_id,
                                      email |-> tasks[d].body.email]>>

\* An event of the publisher has been consumed: delivered, handled with its
\* welcome e-mail, and acknowledged.
C31_Witness ==
    /\ lastCall.op = "publish" /\ handed # <<>>
    /\ \E d \in Delivered :
          /\ tasks[d].pc = "exited" /\ tasks[d].disposition = "ack"
          /\ tasks[d].body = handed[1]
          /\ Len(tasks[d].emails) = 1

====
